---- MODULE Spec2Model ----
(***************************************************************************)
(* Model of the Redfish exporter's poll cycle                              *)
(* (collector.py: RedfishMetricsCollector).                                *)
(*                                                                         *)
(* Python strings are sequences of one-character strings, so that          *)
(* str.lower(), str.upper() and str.strip() are computed character by      *)
(* character.  Python / JSON values are tagged records [t, v].             *)
(***************************************************************************)
EXTENDS Integers, Sequences, FiniteSets, TLC

(***************************************************************************)
(* Bounds of the model.                                                    *)
(***************************************************************************)
\* members listed by each collection of the healthy fixture
MaxMembers == 2
\* paths of the remote fixture that deviate from the healthy one
MaxFaults == 2
\* length of the status strings enumerated for the severity mapper
MaxLen == 3
\* largest clock reading (milliseconds) after the start of the poll
MaxElapsed == 1
\* deviating paths met by two concurrent cycles together
PairFaults == 0
\* deviating paths met by the two cycles of a collector that is run again
AgainFaults == 1
\* depth of the documents and length of the key paths given to _safe_get
MaxKeys == 2

(***************************************************************************)
(* Strings.                                                                *)
(***************************************************************************)
LowerAlpha == <<"a", "b", "c", "d", "e", "f", "g", "h", "i", "j", "k", "l", "m", "n", "o", "p", "q", "r", "s", "t", "u", "v", "w", "x", "y", "z">>
UpperAlpha == <<"A", "B", "C", "D", "E", "F", "G", "H", "I", "J", "K", "L", "M", "N", "O", "P", "Q", "R", "S", "T", "U", "V", "W", "X", "Y", "Z">>
WhiteSpace == {" ", "\t", "\n", "\r"}
Digits == <<"0", "1", "2", "3", "4", "5", "6", "7", "8", "9">>

LowerChar(c) == IF \E i \in 1..26 : UpperAlpha[i] = c
                THEN LowerAlpha[CHOOSE i \in 1..26 : UpperAlpha[i] = c]
                ELSE c
UpperChar(c) == IF \E i \in 1..26 : LowerAlpha[i] = c
                THEN UpperAlpha[CHOOSE i \in 1..26 : LowerAlpha[i] = c]
                ELSE c
\* str.lower(), str.upper()
Lower(s) == [i \in 1..Len(s) |-> LowerChar(s[i])]
Upper(s) == [i \in 1..Len(s) |-> UpperChar(s[i])]

\* str.strip(): whitespace removed at both ends
RECURSIVE LStrip(_)
LStrip(s) == IF s # <<>> /\ Head(s) \in WhiteSpace THEN LStrip(Tail(s)) ELSE s
RECURSIVE RStrip(_)
RStrip(s) == IF s # <<>> /\ s[Len(s)] \in WhiteSpace
             THEN RStrip(SubSeq(s, 1, Len(s) - 1)) ELSE s
Strip(s) == RStrip(LStrip(s))

\* str(n) of an integer
RECURSIVE NatStr(_)
NatStr(n) == IF n < 10 THEN <<Digits[n + 1]>>
             ELSE NatStr(n \div 10) \o <<Digits[(n % 10) + 1]>>
IntStr(n) == IF n < 0 THEN <<"-">> \o NatStr(0 - n) ELSE NatStr(n)

k_off == <<"o", "f", "f">>
k_on == <<"o", "n">>
k_absent == <<"a", "b", "s", "e", "n", "t">>
k_ok == <<"o", "k">>
k_operable == <<"o", "p", "e", "r", "a", "b", "l", "e">>
k_enabled == <<"e", "n", "a", "b", "l", "e", "d">>
k_good == <<"g", "o", "o", "d">>
k_goodinuse == <<"g", "o", "o", "d", "i", "n", "u", "s", "e">>
k_critical == <<"c", "r", "i", "t", "i", "c", "a", "l">>
k_degraded == <<"d", "e", "g", "r", "a", "d", "e", "d">>
k_error == <<"e", "r", "r", "o", "r">>
k_warning == <<"w", "a", "r", "n", "i", "n", "g">>
k_unknown == <<"u", "n", "k", "n", "o", "w", "n">>
k_null == <<"n", "u", "l", "l">>
k_none == <<"n", "o", "n", "e">>
k_presentunused == <<"p", "r", "e", "s", "e", "n", "t", "u", "n", "u", "s", "e", "d">>
k_get_failed == <<"g", "e", "t", "_", "f", "a", "i", "l", "e", "d">>
k_emptydata == <<"e", "m", "p", "t", "y", "d", "a", "t", "a">>
k_mapping_fail == <<"m", "a", "p", "p", "i", "n", "g", "_", "f", "a", "i", "l">>
\* the sentinel 'None' of _safe_get, which is also str(None)
NoneStr == <<"N", "o", "n", "e">>
TrueStr == <<"T", "r", "u", "e">>
FalseStr == <<"F", "a", "l", "s", "e">>

(***************************************************************************)
(* Python values: None, bool, int, str, list, dict.                        *)
(***************************************************************************)
PyNone == [t |-> "none", v |-> <<>>]
PyBool(b) == [t |-> "bool", v |-> b]
PyInt(n) == [t |-> "int", v |-> n]
PyStr(s) == [t |-> "str", v |-> s]
PyList(l) == [t |-> "list", v |-> l]
\* a dict is the sequence of its <<key, value>> items in insertion order;
\* keys are strings and occur once
PyDict(items) == [t |-> "dict", v |-> items]

isinstance_dict(x) == x.t = "dict"
HasKey(d, k) == \E i \in 1..Len(d.v) : d.v[i][1] = k
\* dict.get(key, default)
DictGet(d, k, default) ==
    IF HasKey(d, k) THEN d.v[CHOOSE i \in 1..Len(d.v) : d.v[i][1] = k][2]
    ELSE default

\* bool(x): the truth value Python's `if x` and `not x` test
Truthy(x) ==
    CASE x.t = "none" -> FALSE
      [] x.t = "bool" -> x.v
      [] x.t = "int" -> x.v # 0
      [] OTHER -> Len(x.v) > 0

\* repr(x) and str(x); they differ for strings only
RECURSIVE Repr(_)
RECURSIVE JoinRepr(_, _)
RECURSIVE JoinItems(_, _)
JoinRepr(l, i) ==
    IF i > Len(l) THEN <<>>
    ELSE (IF i > 1 THEN <<",", " ">> ELSE <<>>) \o Repr(l[i]) \o JoinRepr(l, i + 1)
JoinItems(l, i) ==
    IF i > Len(l) THEN <<>>
    ELSE (IF i > 1 THEN <<",", " ">> ELSE <<>>)
         \o Repr(PyStr(l[i][1])) \o <<":", " ">> \o Repr(l[i][2])
         \o JoinItems(l, i + 1)
Repr(x) ==
    CASE x.t = "none" -> NoneStr
      [] x.t = "bool" -> (IF x.v THEN TrueStr ELSE FalseStr)
      [] x.t = "int" -> IntStr(x.v)
      [] x.t = "str" -> <<"'">> \o x.v \o <<"'">>
      [] x.t = "list" -> <<"[">> \o JoinRepr(x.v, 1) \o <<"]">>
      [] x.t = "dict" -> <<"{">> \o JoinItems(x.v, 1) \o <<"}">>
str(x) == IF x.t = "str" THEN x.v ELSE Repr(x)

(***************************************************************************)
(* SeverityMapper: _status_map and _map_status.                            *)
(***************************************************************************)
_status_map ==
    << <<k_off, 0>>, <<k_on, 1>>, <<k_absent, 6>>, <<k_ok, 0>>,
       <<k_operable, 0>>, <<k_enabled, 0>>, <<k_good, 0>>,
       <<k_goodinuse, 0>>, <<k_critical, 1>>, <<k_degraded, 1>>,
       <<k_error, 1>>, <<k_warning, 2>>, <<k_unknown, 5>>,
       <<k_null, 5>>, <<k_none, 5>>, <<k_presentunused, 7>>,
       <<k_get_failed, 99>>, <<k_emptydata, 100>>, <<k_mapping_fail, 500>> >>

\* the lookup without the lower-casing of the status
_map_status_case_sensitive(status) ==
    IF ~Truthy(status) \/ status = PyStr(NoneStr) THEN 5
    ELSE DictGet(PyDict(_status_map), str(status), 500)
\* the lookup whose default is the code of an unknown status
_map_status_default_unknown(status) ==
    IF ~Truthy(status) \/ status = PyStr(NoneStr) THEN 5
    ELSE DictGet(PyDict(_status_map), Lower(str(status)), 5)
_map_status(status) ==
    IF ~Truthy(status) \/ status = PyStr(NoneStr)
    THEN 5
    ELSE DictGet(PyDict(_status_map), Lower(str(status)), 500)

(***************************************************************************)
(* FieldExtractor: _safe_get(data, *keys, default='None').                 *)
(***************************************************************************)
RECURSIVE SafeGetLoop(_, _, _)
\* the for loop: result after the keys from position i on, or the default
\* wrapped as "returned" when an intermediate value is not a dict
SafeGetLoop(result, keys, i) ==
    IF i > Len(keys) THEN [returned |-> FALSE, result |-> result]
    ELSE IF isinstance_dict(result)
         THEN SafeGetLoop(DictGet(result, keys[i], PyStr(NoneStr)), keys, i + 1)
         ELSE [returned |-> TRUE, result |-> PyStr(NoneStr)]
\* the extraction that converts a falsy terminal value like any other
_safe_get_falsy_converted(data, keys) ==
    LET r == SafeGetLoop(data, keys, 1)
    IN  IF r.returned THEN NoneStr ELSE Strip(str(r.result))
_safe_get(data, keys) ==
    LET r == SafeGetLoop(data, keys, 1)
    IN  IF r.returned THEN NoneStr
        ELSE IF Truthy(r.result) THEN Strip(str(r.result)) ELSE NoneStr

(***************************************************************************)
(* String literals of the source and of the remote fixture.                *)
(***************************************************************************)
\* the resource fields the collector reads
Key ==
    [Status |-> <<"S", "t", "a", "t", "u", "s">>,
     Health |-> <<"H", "e", "a", "l", "t", "h">>,
     PowerState |-> <<"P", "o", "w", "e", "r", "S", "t", "a", "t", "e">>,
     Id |-> <<"I", "d">>,
     Manufacturer |-> <<"M", "a", "n", "u", "f", "a", "c", "t", "u", "r", "e", "r">>,
     Model |-> <<"M", "o", "d", "e", "l">>,
     PartNumber |-> <<"P", "a", "r", "t", "N", "u", "m", "b", "e", "r">>,
     SerialNumber |-> <<"S", "e", "r", "i", "a", "l", "N", "u", "m", "b", "e", "r">>,
     Processors |-> <<"P", "r", "o", "c", "e", "s", "s", "o", "r", "s">>,
     Memory |-> <<"M", "e", "m", "o", "r", "y">>,
     Members |-> <<"M", "e", "m", "b", "e", "r", "s">>,
     InstructionSet |-> <<"I", "n", "s", "t", "r", "u", "c", "t", "i", "o", "n", "S", "e", "t">>,
     MaxSpeedMHz |-> <<"M", "a", "x", "S", "p", "e", "e", "d", "M", "H", "z">>,
     Name |-> <<"N", "a", "m", "e">>,
     ProcessorArchitecture |-> <<"P", "r", "o", "c", "e", "s", "s", "o", "r", "A", "r", "c", "h", "i", "t", "e", "c", "t", "u", "r", "e">>,
     ProcessorType |-> <<"P", "r", "o", "c", "e", "s", "s", "o", "r", "T", "y", "p", "e">>,
     Socket |-> <<"S", "o", "c", "k", "e", "t">>,
     TotalCores |-> <<"T", "o", "t", "a", "l", "C", "o", "r", "e", "s">>,
     TotalThreads |-> <<"T", "o", "t", "a", "l", "T", "h", "r", "e", "a", "d", "s">>,
     BaseSpeedMHz |-> <<"B", "a", "s", "e", "S", "p", "e", "e", "d", "M", "H", "z">>,
     FirmwareVersion |-> <<"F", "i", "r", "m", "w", "a", "r", "e", "V", "e", "r", "s", "i", "o", "n">>,
     OperatingSpeedMHz |-> <<"O", "p", "e", "r", "a", "t", "i", "n", "g", "S", "p", "e", "e", "d", "M", "H", "z">>,
     CapacityMiB |-> <<"C", "a", "p", "a", "c", "i", "t", "y", "M", "i", "B">>,
     DeviceLocator |-> <<"D", "e", "v", "i", "c", "e", "L", "o", "c", "a", "t", "o", "r">>,
     MemoryDeviceType |-> <<"M", "e", "m", "o", "r", "y", "D", "e", "v", "i", "c", "e", "T", "y", "p", "e">>,
     MemoryType |-> <<"M", "e", "m", "o", "r", "y", "T", "y", "p", "e">>,
     OperatingSpeedMhz |-> <<"O", "p", "e", "r", "a", "t", "i", "n", "g", "S", "p", "e", "e", "d", "M", "h", "z">>,
     odata_id |-> <<"@", "o", "d", "a", "t", "a", ".", "i", "d">>]
LabelType ==
    [ping_check |-> <<"p", "i", "n", "g", "_", "c", "h", "e", "c", "k">>,
     redfish_login |-> <<"r", "e", "d", "f", "i", "s", "h", "_", "l", "o", "g", "i", "n">>,
     system_health |-> <<"s", "y", "s", "t", "e", "m", "_", "h", "e", "a", "l", "t", "h">>,
     system_power |-> <<"s", "y", "s", "t", "e", "m", "_", "p", "o", "w", "e", "r">>,
     processor |-> <<"p", "r", "o", "c", "e", "s", "s", "o", "r">>,
     memory |-> <<"m", "e", "m", "o", "r", "y">>,
     gpu_system_health |-> <<"g", "p", "u", "_", "s", "y", "s", "t", "e", "m", "_", "h", "e", "a", "l", "t", "h">>,
     gpu_system_power |-> <<"g", "p", "u", "_", "s", "y", "s", "t", "e", "m", "_", "p", "o", "w", "e", "r">>,
     gpu_processor |-> <<"g", "p", "u", "_", "p", "r", "o", "c", "e", "s", "s", "o", "r">>,
     gpu_memory |-> <<"g", "p", "u", "_", "m", "e", "m", "o", "r", "y">>]
FPGA_0 == <<"F", "P", "G", "A", "_", "0">>
SystemPath == <<"/", "r", "e", "d", "f", "i", "s", "h", "/", "v", "1", "/", "S", "y", "s", "t", "e", "m", "s", "/", "1">>
GpuPath == <<"/", "r", "e", "d", "f", "i", "s", "h", "/", "v", "1", "/", "S", "y", "s", "t", "e", "m", "s", "/", "H", "G", "X", "_", "B", "a", "s", "e", "b", "o", "a", "r", "d", "_", "0">>
s_OK == <<"O", "K">>
s_Fail == <<"F", "a", "i", "l">>
s_Failed == <<"F", "a", "i", "l", "e", "d">>
haein_gpu == "haein_gpu"

(***************************************************************************)
(* The remote management controller: what the outbound calls answer.       *)
(* A fixture maps each path it serves to the name of a behaviour; the      *)
(* healthy behaviour is "ok".  Paths below the two system documents are    *)
(* the fixture's own choice, the collector only follows the links.         *)
(***************************************************************************)
ProcessorsLink(sys) == sys \o <<"/", "P">>
MemoryLink(sys) == sys \o <<"/", "M">>
MemberPath(coll, i) == coll \o <<"/">> \o IntStr(i)

SystemPaths == {SystemPath, GpuPath}
CollectionPaths == {ProcessorsLink(s) : s \in SystemPaths} \cup {MemoryLink(s) : s \in SystemPaths}
MemberPaths == {MemberPath(c, i) : c \in CollectionPaths, i \in 1..MaxMembers}
Paths == SystemPaths \cup CollectionPaths \cup MemberPaths

SystemAlts == {"http_error", "raise", "empty", "no_processors", "no_memory"}
CollectionAlts == {"http_error", "raise", "no_members", "null_members", "bad_entry", "no_link"}
MemberAlts == {"http_error", "raise", "empty", "bare", "fpga"}
Alts(p) == IF p \in SystemPaths THEN SystemAlts
           ELSE IF p \in CollectionPaths THEN CollectionAlts
           ELSE MemberAlts

Link(path) == PyDict(<< <<Key.odata_id, PyStr(path)>> >>)
HealthStatus(h) == PyDict(<< <<Key.Health, h>> >>)

SystemDoc(p, alt) ==
    LET head == IF p = SystemPath
                THEN << <<Key.Id, PyStr(<<"1">>)>>,
                        <<Key.Status, HealthStatus(PyStr(<<"O", "K">>))>>,
                        <<Key.PowerState, PyStr(<<"O", "n">>)>>,
                        <<Key.Manufacturer, PyStr(<<"D", "e", "l", "l">>)>>,
                        <<Key.Model, PyStr(<<" ", "R", "7", " ">>)>>,
                        <<Key.SerialNumber, PyInt(77)>> >>
                ELSE << <<Key.Id, PyStr(<<"H", "G", "X">>)>>,
                        <<Key.Status, HealthStatus(PyStr(<<"W", "a", "r", "n", "i", "n", "g">>))>>,
                        <<Key.PowerState, PyStr(<<"O", "f", "f">>)>>,
                        <<Key.Manufacturer, PyStr(<<"N", "V">>)>> >>
        procs == IF alt = "no_processors" THEN <<>>
                 ELSE << <<Key.Processors, Link(ProcessorsLink(p))>> >>
        mem == IF alt = "no_memory" THEN <<>>
               ELSE << <<Key.Memory, Link(MemoryLink(p))>> >>
    IN  IF alt = "empty" THEN PyDict(<<>>) ELSE PyDict(head \o procs \o mem)

CollectionDoc(p, alt) ==
    LET entry(i) == Link(MemberPath(p, i))
        name == << <<Key.Name, PyStr(<<"c">>)>> >>
    IN  CASE alt = "no_members" -> PyDict(name)
          [] alt = "null_members" -> PyDict(name \o << <<Key.Members, PyNone>> >>)
          [] alt = "bad_entry" ->
                PyDict(name \o << <<Key.Members, PyList(<<entry(1), PyStr(MemberPath(p, 2))>>)>> >>)
          [] alt = "no_link" ->
                PyDict(name \o << <<Key.Members,
                                    PyList(<<PyDict(name)>> \o [i \in 1..(MaxMembers - 1) |-> entry(i + 1)])>> >>)
          [] OTHER ->
                PyDict(name \o << <<Key.Members, PyList([i \in 1..MaxMembers |-> entry(i)])>> >>)

IsProcessorPath(p) == \E s \in SystemPaths, i \in 1..MaxMembers : p = MemberPath(ProcessorsLink(s), i)
IsGpuMember(p) == \E c \in {ProcessorsLink(GpuPath), MemoryLink(GpuPath)}, i \in 1..MaxMembers : p = MemberPath(c, i)
MemberIndex(p) == CHOOSE i \in 1..MaxMembers : \E c \in CollectionPaths : p = MemberPath(c, i)

MemberDoc(p, alt) ==
    LET i == MemberIndex(p)
        id == IF alt = "fpga" \/ (IsProcessorPath(p) /\ IsGpuMember(p) /\ i = 1)
              THEN FPGA_0
              ELSE (IF IsProcessorPath(p) THEN <<"U">> ELSE <<"D">>) \o IntStr(i)
        health == IF i = 1 THEN PyStr(<<"O", "K">>)
                  ELSE IF IsProcessorPath(p)
                       THEN (IF IsGpuMember(p) THEN PyStr(<<"S", "t", "a", "l", "e">>) ELSE PyStr(<<" ", "C", "r", "i", "t", "i", "c", "a", "l">>))
                       ELSE PyNone
    IN  CASE alt = "empty" -> PyDict(<<>>)
          [] alt = "bare" -> PyDict(<< <<Key.Name, PyStr(<<"n">>)>> >>)
          [] OTHER ->
                PyDict(<< <<Key.Id, PyStr(id)>>,
                          <<Key.Status, HealthStatus(health)>> >>
                       \o (IF IsProcessorPath(p)
                           THEN << <<Key.TotalThreads, PyInt(8)>>, <<Key.FirmwareVersion, PyStr(<<"1", ".", "0">>)>> >>
                           ELSE << <<Key.CapacityMiB, PyInt(16)>> >>))

\* what redfish_object.get(path) does: a response (status, dict) or an exception
Response(status, dict) == [kind |-> "response", status |-> status, dict |-> dict]
Raises == [kind |-> "raise", status |-> 0, dict |-> PyNone]
RemoteGet(path, alt) ==
    IF path.t # "str" THEN Raises
    ELSE IF path.v \notin Paths THEN Response(404, PyNone)
    ELSE CASE alt = "raise" -> Raises
           [] alt = "http_error" -> Response(404, PyNone)
           [] path.v \in SystemPaths -> Response(200, SystemDoc(path.v, alt))
           [] path.v \in CollectionPaths -> Response(200, CollectionDoc(path.v, alt))
           [] OTHER -> Response(200, MemberDoc(path.v, alt))

(***************************************************************************)
(* The collector.                                                          *)
(***************************************************************************)
VARIABLES
    collector,   \* the RedfishMetricsCollector objects, by identity: their
                 \* fields, the position and locals of their collect()
                 \* generator, what it yielded and the trace of its calls and yields
    clients,     \* the number of redfish client objects constructed so far
    input,       \* the argument a pure helper is applied to
    output       \* whether it was applied, and what it returned
vars == <<collector, clients, input, output>>

Codes == {haein_gpu, "standard"}
\* the endpoint name, which names the main family
_module == "redfish"
\* milliseconds between two clock readings of the model
ClockStep == 6

Sample(v, labels) == [value |-> v, labels |-> labels]
add_sample(samples, v, labels) == Append(samples, Sample(v, labels))
\* one event of a cycle: an outbound call (connect_ex, redfish_client, login,
\* get, logout) on client h and how it ended, or the yield of a family
Call(op, h, path, res) == [op |-> op, h |-> h, path |-> path, res |-> res]

_get_redfish_data(path, alt) ==
    LET response == RemoteGet(path, alt)
    IN  IF response.kind = "raise" THEN PyNone
        ELSE IF response.status = 200 THEN response.dict
        ELSE PyNone

\* the answers the remote may give to get(path) in the state of `self`
IsFault(call) ==
    /\ call.op = "get"
    /\ call.res # "ok"
    /\ call.path.t = "str"
    /\ call.path.v \in Paths
\* the paths found to deviate so far; a path that deviated may do so again
Deviating(self) == {self.trace[k].path : k \in {j \in 1..Len(self.trace) : IsFault(self.trace[j])}}
Faults(self) == Cardinality(Deviating(self))
Draw(self, path) ==
    IF path.t # "str" THEN {"raise"}
    ELSE IF path.v \notin Paths THEN {"http_error"}
    ELSE {"ok"} \cup (IF Faults(self) < MaxFaults \/ path \in Deviating(self)
                     THEN Alts(path.v) ELSE {})
\* both ways a fetch fails are recorded alike
Recorded(alt) == IF alt \in {"http_error", "raise"} THEN "failed" ELSE alt
Fetched(self, path, alt) ==
    [self EXCEPT !.trace = Append(@, Call("get", self._redfish_object, path, Recorded(alt)))]

Fields(data, names) == [n \in names |-> _safe_get(data, <<Key[n]>>)]
WithHealth(data, labeltype, names) ==
    [n \in {"labeltype", "Status_Health"} \cup names |->
        CASE n = "labeltype" -> labeltype
          [] n = "Status_Health" -> _safe_get(data, <<Key.Status, Key.Health>>)
          [] OTHER -> _safe_get(data, <<Key[n]>>)]
\* {'labeltype': ..., name: value, **common_labels}
WithCommon(labeltype, name, value, common_labels) ==
    [n \in {"labeltype", name} \cup DOMAIN common_labels |->
        CASE n = "labeltype" -> labeltype
          [] n = name -> value
          [] OTHER -> common_labels[n]]

\* a variant of _collect_system_info whose power sample carries the value of
\* the health field
_collect_system_info_power_by_health(system_data, metrics) ==
    LET status_health == _safe_get(system_data, <<Key.Status, Key.Health>>)
        power_state == _safe_get(system_data, <<Key.PowerState>>)
        common_labels == Fields(system_data, {"Id", "Manufacturer", "Model", "PartNumber", "SerialNumber"})
    IN  add_sample(
            add_sample(metrics, _map_status(PyStr(status_health)),
                       WithCommon(LabelType.system_health, "Status_Health", status_health, common_labels)),
            _map_status(PyStr(status_health)),
            WithCommon(LabelType.system_power, "PowerState", power_state, common_labels))

_collect_system_info(system_data, metrics) ==
    LET status_health == _safe_get(system_data, <<Key.Status, Key.Health>>)
        power_state == _safe_get(system_data, <<Key.PowerState>>)
        common_labels == Fields(system_data, {"Id", "Manufacturer", "Model", "PartNumber", "SerialNumber"})
    IN  add_sample(
            add_sample(metrics, _map_status(PyStr(status_health)),
                       WithCommon(LabelType.system_health, "Status_Health", status_health, common_labels)),
            _map_status(PyStr(power_state)),
            WithCommon(LabelType.system_power, "PowerState", power_state, common_labels))

_collect_gpu_system_info(gpu_data, metrics) ==
    LET status_health == _safe_get(gpu_data, <<Key.Status, Key.Health>>)
        power_state == _safe_get(gpu_data, <<Key.PowerState>>)
        common_labels == Fields(gpu_data, {"Manufacturer", "Id"})
    IN  add_sample(
            add_sample(metrics, _map_status(PyStr(status_health)),
                       WithCommon(LabelType.gpu_system_health, "Status_Health", status_health, common_labels)),
            _map_status(PyStr(power_state)),
            WithCommon(LabelType.gpu_system_power, "PowerState", power_state, common_labels))

\* the labels built for one member document, per collecting method
ProcessorLabels(processor_data) ==
    WithHealth(processor_data, LabelType.processor,
               {"Id", "Manufacturer", "InstructionSet", "MaxSpeedMHz", "Model", "Name",
                "ProcessorArchitecture", "ProcessorType", "Socket", "TotalCores", "TotalThreads"})
MemoryLabels(memory_data) ==
    WithHealth(memory_data, LabelType.memory,
               {"CapacityMiB", "DeviceLocator", "Id", "Manufacturer", "Model", "MemoryDeviceType",
                "MemoryType", "Name", "OperatingSpeedMhz", "PartNumber", "SerialNumber"})
GpuProcessorLabels(processor_data) ==
    IF _safe_get(processor_data, <<Key.Id>>) = FPGA_0
    THEN WithHealth(processor_data, LabelType.gpu_processor,
                    {"FirmwareVersion", "Id", "Manufacturer", "Name"})
    ELSE WithHealth(processor_data, LabelType.processor,
                    {"BaseSpeedMHz", "FirmwareVersion", "Id", "Manufacturer", "MaxSpeedMHz",
                     "Model", "Name", "OperatingSpeedMHz", "PartNumber", "ProcessorType",
                     "SerialNumber", "TotalThreads"})
GpuMemoryLabels(memory_data) ==
    WithHealth(memory_data, LabelType.gpu_memory,
               {"CapacityMiB", "Id", "MemoryDeviceType", "MemoryType", "Name", "OperatingSpeedMhz"})
MemberLabels(method, data) ==
    CASE method = "_collect_processors" -> ProcessorLabels(data)
      [] method = "_collect_memory" -> MemoryLabels(data)
      [] method = "_collect_gpu_processors" -> GpuProcessorLabels(data)
      [] method = "_collect_gpu_memory" -> GpuMemoryLabels(data)

\* `for x in members`: the items the loop visits; iterating None, a number
\* or a bool raises TypeError
Iterable(x) == x.t \in {"list", "str", "dict"}
Items(x) ==
    CASE x.t = "list" -> x.v
      [] x.t = "str" -> [i \in 1..Len(x.v) |-> PyStr(<<x.v[i]>>)]
      [] x.t = "dict" -> [i \in 1..Len(x.v) |-> PyStr(x.v[i][1])]

\* round(seconds, 2) of a duration given in milliseconds, in hundredths of a
\* second: to the nearest hundredth, a tie going to the even one
Round2(ms) ==
    LET q == ms \div 10
        r == ms % 10
    IN  IF r < 5 THEN q
        ELSE IF r > 5 THEN q + 1
        ELSE IF q % 2 = 0 THEN q ELSE q + 1

Family(name, samples) == [name |-> name, samples |-> samples]

\* __init__, lines 10-29, with the generator of collect() not yet started
New(code) ==
    [pc |-> "collect",
     _code |-> code,
     _redfish_object |-> 0,
     _metrics |-> <<>>,
     _scrape_metrics |-> <<>>,
     _start_time |-> 0,
     time |-> 0,
     err |-> FALSE,
     data |-> PyNone,
     members |-> <<>>,
     i |-> 0,
     yielded |-> <<>>,
     trace |-> <<>>]

NotApplied == [done |-> FALSE, value |-> 0]
Init ==
    /\ collector \in [{1} -> {New(code) : code \in Codes}]
    /\ clients = 0
    /\ input = PyNone
    /\ output = NotApplied

Set(c, self) ==
    /\ c \in DOMAIN collector
    /\ collector' = [collector EXCEPT ![c] = self]
    /\ UNCHANGED <<input, output>>
\* an except clause that starts the main family afresh
ExceptLost(self) == [self EXCEPT !.err = TRUE, !.pc = "finally", !.data = PyNone,
                                 !.members = <<>>, !.i = 0, !._metrics = <<>>]
\* the exception leaves the try block: the except clause of line 376 logs it
Except(self) == [self EXCEPT !.err = TRUE, !.pc = "finally", !.data = PyNone,
                             !.members = <<>>, !.i = 0]
\* a collecting method whose early return ends the traversal
ReturnEndsWalk(self, next) ==
    [self EXCEPT !.pc = IF self.i = 0 THEN "finally" ELSE next, !.members = <<>>, !.i = 0,
                 !.data = PyNone]
\* a collecting method returns to collect()
Return(self, next) == [self EXCEPT !.pc = next, !.members = <<>>, !.i = 0,
                                   !.data = IF next \in {"gpu", "finally"} THEN PyNone ELSE @]

\* collect(), lines 344-354: the two families are created empty
Collect(c) ==
    LET self == collector[c]
    IN  /\ c \in DOMAIN collector
        /\ self.pc = "collect"
        /\ Set(c, [self EXCEPT !._metrics = <<>>, !._scrape_metrics = <<>>,
                               !.pc = "ping_check"])
        /\ UNCHANGED clients

\* ping_check() whose failure leaves collect() at once, past its finally clause
ping_check_leaves(c) ==
    LET self == collector[c]
    IN  /\ c \in DOMAIN collector
        /\ self.pc = "ping_check"
        /\ \E result \in {"connected", "refused", "raise"} :
              LET s1 == [self EXCEPT !.trace = Append(@, Call("connect_ex", 0, PyNone, result))]
              IN  IF result = "connected"
                  THEN Set(c, [s1 EXCEPT
                          !._metrics = add_sample(@, 1,
                              [labeltype |-> LabelType.ping_check, ping_check |-> <<"O", "K">>]),
                          !.pc = "redfish_login"])
                  ELSE Set(c, [s1 EXCEPT
                          !._metrics = add_sample(@, 0,
                              [labeltype |-> LabelType.ping_check, ping_check |-> <<"F", "a", "i", "l">>]),
                          !.pc = "done"])
        /\ UNCHANGED clients

\* ping_check() whose failure does not end the cycle
ping_check_no_abort(c) ==
    LET self == collector[c]
    IN  /\ c \in DOMAIN collector
        /\ self.pc = "ping_check"
        /\ \E result \in {"connected", "refused", "raise"} :
              Set(c, [self EXCEPT
                  !.trace = Append(@, Call("connect_ex", 0, PyNone, result)),
                  !._metrics = add_sample(@, IF result = "connected" THEN 1 ELSE 0,
                      [labeltype |-> LabelType.ping_check,
                       ping_check |-> IF result = "connected" THEN <<"O", "K">> ELSE <<"F", "a", "i", "l">>]),
                  !.pc = "redfish_login"])
        /\ UNCHANGED clients

\* ping_check(), called at line 357
ping_check(c) ==
    LET self == collector[c]
    IN  /\ c \in DOMAIN collector
        /\ self.pc = "ping_check"
        /\ \E result \in {"connected", "refused", "raise"} :
              LET s1 == [self EXCEPT !.trace = Append(@, Call("connect_ex", 0, PyNone, result))]
              IN  IF result = "connected"
                  THEN Set(c, [s1 EXCEPT
                          !._metrics = add_sample(@, 1,
                              [labeltype |-> LabelType.ping_check, ping_check |-> <<"O", "K">>]),
                          !.pc = "redfish_login"])
                  ELSE Set(c, [s1 EXCEPT
                          !._metrics = add_sample(@, 0,
                              [labeltype |-> LabelType.ping_check, ping_check |-> <<"F", "a", "i", "l">>]),
                          !.pc = "finally"])
        /\ UNCHANGED clients

\* redfish_login() whose failure does not end the cycle
redfish_login_no_abort(c) ==
    LET self == collector[c]
        h == clients + 1
        next == IF self._code = haein_gpu THEN "system" ELSE "finally"
    IN  /\ c \in DOMAIN collector
        /\ self.pc = "redfish_login"
        /\ \E outcome \in {"ok", "login_raises"} :
              /\ Set(c, [self EXCEPT
                    !._redfish_object = h,
                    !.trace = @ \o << Call("redfish_client", h, PyNone, "ok"),
                                     Call("login", h, PyNone,
                                          IF outcome = "ok" THEN "ok" ELSE "raise") >>,
                    !._metrics = add_sample(@, IF outcome = "ok" THEN 1 ELSE 0,
                        [labeltype |-> LabelType.redfish_login,
                         redfish_login |-> IF outcome = "ok" THEN <<"O", "K">> ELSE <<"F", "a", "i", "l", "e", "d">>]),
                    !.pc = next])
              /\ clients' = h

\* redfish_login(), called at line 360, and the test of line 363
redfish_login(c) ==
    LET self == collector[c]
        h == clients + 1
        ok == [labeltype |-> LabelType.redfish_login, redfish_login |-> <<"O", "K">>]
        failed == [labeltype |-> LabelType.redfish_login, redfish_login |-> <<"F", "a", "i", "l", "e", "d">>]
    IN  /\ c \in DOMAIN collector
        /\ self.pc = "redfish_login"
        /\ \E outcome \in {"ok", "client_raises", "login_raises"} :
              CASE outcome = "client_raises" ->
                    /\ Set(c, [self EXCEPT
                          !.trace = Append(@, Call("redfish_client", 0, PyNone, "raise")),
                          !._metrics = add_sample(@, 0, failed),
                          !.pc = "finally"])
                    /\ UNCHANGED clients
                [] outcome = "login_raises" ->
                    /\ Set(c, [self EXCEPT
                          !._redfish_object = h,
                          !.trace = @ \o << Call("redfish_client", h, PyNone, "ok"),
                                           Call("login", h, PyNone, "raise") >>,
                          !._metrics = add_sample(@, 0, failed),
                          !.pc = "finally"])
                    /\ clients' = h
                [] outcome = "ok" ->
                    /\ Set(c, [self EXCEPT
                          !._redfish_object = h,
                          !.trace = @ \o << Call("redfish_client", h, PyNone, "ok"),
                                           Call("login", h, PyNone, "ok") >>,
                          !._metrics = add_sample(@, 1, ok),
                          !.pc = IF self._code = haein_gpu THEN "system" ELSE "finally"])
                    /\ clients' = h

\* collect(), lines 364-366
FetchSystem(c) ==
    LET self == collector[c]
    IN  /\ c \in DOMAIN collector
        /\ self.pc = "system"
        /\ \E alt \in Draw(self, PyStr(SystemPath)) :
              LET system_data == _get_redfish_data(PyStr(SystemPath), alt)
                  s1 == Fetched(self, PyStr(SystemPath), alt)
              IN  IF Truthy(system_data)
                  THEN Set(c, [s1 EXCEPT
                          !._metrics = _collect_system_info(system_data, @),
                          !.data = system_data,
                          !.pc = "_collect_processors"])
                  ELSE Set(c, [s1 EXCEPT !.pc = "gpu"])
        /\ UNCHANGED clients

\* collect(), lines 370-372
FetchGpu(c) ==
    LET self == collector[c]
    IN  /\ c \in DOMAIN collector
        /\ self.pc = "gpu"
        /\ \E alt \in Draw(self, PyStr(GpuPath)) :
              LET gpu_data == _get_redfish_data(PyStr(GpuPath), alt)
                  s1 == Fetched(self, PyStr(GpuPath), alt)
              IN  IF Truthy(gpu_data)
                  THEN Set(c, [s1 EXCEPT
                          !._metrics = _collect_gpu_system_info(gpu_data, @),
                          !.data = gpu_data,
                          !.pc = "_collect_gpu_processors"])
                  ELSE Set(c, [s1 EXCEPT !.pc = "finally"])
        /\ UNCHANGED clients

\* One step of a collecting method: with i = 0 its head, which resolves the
\* link and fetches the collection; with i > 0 the iteration of its for loop
\* on members[i].  The method returns to `next` in collect().
CollectStep(c, method, link, next) ==
    LET self == collector[c]
    IN  /\ c \in DOMAIN collector
        /\ self.pc = method
        /\ IF self.i = 0
           THEN LET path == _safe_get(self.data, <<link, Key.odata_id>>)
                IN  IF path = NoneStr THEN Set(c, Return(self, next))
                    ELSE \E alt \in Draw(self, PyStr(path)) :
                           LET collection == _get_redfish_data(PyStr(path), alt)
                               members == DictGet(collection, Key.Members, PyList(<<>>))
                               s1 == Fetched(self, PyStr(path), alt)
                           IN  IF ~Truthy(collection) THEN Set(c, Return(s1, next))
                               ELSE IF ~isinstance_dict(collection) THEN Set(c, Except(s1))
                               ELSE IF ~Iterable(members) THEN Set(c, Except(s1))
                               ELSE IF Len(Items(members)) = 0 THEN Set(c, Return(s1, next))
                               ELSE Set(c, [s1 EXCEPT !.members = Items(members), !.i = 1])
           ELSE LET member == self.members[self.i]
                    path == DictGet(member, Key.odata_id, PyNone)
                    after(s) == IF self.i = Len(self.members) THEN Return(s, next)
                                ELSE [s EXCEPT !.i = @ + 1]
                IN  IF ~isinstance_dict(member) THEN Set(c, Except(self))
                    ELSE \E alt \in Draw(self, path) :
                           LET data == _get_redfish_data(path, alt)
                               labels == MemberLabels(method, data)
                               s1 == Fetched(self, path, alt)
                           IN  IF ~Truthy(data) THEN Set(c, after(s1))
                               ELSE Set(c, after([s1 EXCEPT !._metrics =
                                       add_sample(@, _map_status(PyStr(labels["Status_Health"])), labels)]))
        /\ UNCHANGED clients

_collect_processors(c) ==
    CollectStep(c, "_collect_processors", Key.Processors, "_collect_memory")
_collect_memory(c) ==
    CollectStep(c, "_collect_memory", Key.Memory, "gpu")
_collect_gpu_processors(c) ==
    CollectStep(c, "_collect_gpu_processors", Key.Processors, "_collect_gpu_memory")
_collect_gpu_memory(c) ==
    CollectStep(c, "_collect_gpu_memory", Key.Memory, "finally")

\* a finally clause that logs out the client built last, by whichever cycle
FinallySharedClient(c) ==
    LET self == collector[c]
        yield == Call("yield", 0, PyNone, _module)
        s1 == [self EXCEPT !.yielded = Append(@, Family(_module, self._metrics)),
                           !.pc = "duration"]
    IN  /\ c \in DOMAIN collector
        /\ self.pc = "finally"
        /\ IF self._redfish_object # 0
           THEN \E outcome \in {"ok", "raise"} :
                   Set(c, [s1 EXCEPT !.trace =
                       @ \o << Call("logout", clients, PyNone, outcome), yield >>])
           ELSE Set(c, [s1 EXCEPT !.trace = Append(@, yield)])
        /\ UNCHANGED clients

\* a finally clause that lets the exception of logout() leave collect()
FinallyLogoutEscapes(c) ==
    LET self == collector[c]
        yield == Call("yield", 0, PyNone, _module)
        s1 == [self EXCEPT !.yielded = Append(@, Family(_module, self._metrics)),
                           !.pc = "duration"]
    IN  /\ c \in DOMAIN collector
        /\ self.pc = "finally"
        /\ IF self._redfish_object # 0
           THEN \/ Set(c, [s1 EXCEPT !.trace =
                       @ \o << Call("logout", self._redfish_object, PyNone, "ok"), yield >>])
                \/ Set(c, [self EXCEPT !.trace =
                       Append(@, Call("logout", self._redfish_object, PyNone, "raise")),
                       !.err = TRUE, !.pc = "done"])
           ELSE Set(c, [s1 EXCEPT !.trace = Append(@, yield)])
        /\ UNCHANGED clients

\* the logout at the end of the try block instead of in the finally clause
FinallyNoLogoutOnError(c) ==
    LET self == collector[c]
        yield == Call("yield", 0, PyNone, _module)
        s1 == [self EXCEPT !.yielded = Append(@, Family(_module, self._metrics)),
                           !.pc = "duration"]
    IN  /\ c \in DOMAIN collector
        /\ self.pc = "finally"
        /\ IF self._redfish_object # 0 /\ ~self.err
           THEN \E outcome \in {"ok", "raise"} :
                   Set(c, [s1 EXCEPT !.trace =
                       @ \o << Call("logout", self._redfish_object, PyNone, outcome), yield >>])
           ELSE Set(c, [s1 EXCEPT !.trace = Append(@, yield)])
        /\ UNCHANGED clients

\* collect(), lines 378-386: the finally clause up to its first yield
Finally(c) ==
    LET self == collector[c]
        yield == Call("yield", 0, PyNone, _module)
        s1 == [self EXCEPT !.yielded = Append(@, Family(_module, self._metrics)),
                           !.pc = "duration"]
    IN  /\ c \in DOMAIN collector
        /\ self.pc = "finally"
        /\ IF self._redfish_object # 0
           THEN \E outcome \in {"ok", "raise"} :
                   Set(c, [s1 EXCEPT !.trace =
                       @ \o << Call("logout", self._redfish_object, PyNone, outcome), yield >>])
           ELSE Set(c, [s1 EXCEPT !.trace = Append(@, yield)])
        /\ UNCHANGED clients

\* collect(), lines 388-394: time.time() is read again
YieldScrape(c) ==
    LET self == collector[c]
    IN  /\ c \in DOMAIN collector
        /\ self.pc = "duration"
        /\ \E k \in {n \in 0..MaxElapsed : ClockStep * n >= self.time} :
              LET now == ClockStep * k
                  duration == Round2(now - self._start_time)
                  scrape == add_sample(self._scrape_metrics, duration, <<>>)
              IN  Set(c, [self EXCEPT
                      !.time = now,
                      !._scrape_metrics = scrape,
                      !.yielded = Append(@, Family("redfish_scrape_duration_seconds", scrape)),
                      !.trace = Append(@, Call("yield", 0, PyNone, "redfish_scrape_duration_seconds")),
                      !.pc = "done"])
        /\ UNCHANGED clients

\* the identities a collector object may have
MaxCollectors == 2
CollectorIds == 1..MaxCollectors

Next ==
    \E c \in CollectorIds :
        \/ Collect(c)
        \/ ping_check(c)
        \/ redfish_login(c)
        \/ FetchSystem(c)
        \/ _collect_processors(c)
        \/ _collect_memory(c)
        \/ FetchGpu(c)
        \/ _collect_gpu_processors(c)
        \/ _collect_gpu_memory(c)
        \/ Finally(c)
        \/ YieldScrape(c)

Spec == Init /\ [][Next]_vars

(***************************************************************************)
(* Two poll cycles of one target, one after the other, against a remote    *)
(* that answers each call the second time as it did the first: collect()   *)
(* called again on the same collector, or on a second collector            *)
(* constructed for the same request.                                       *)
(***************************************************************************)
\* collect() that keeps the family of the run before
CollectAgainKeeps(c) ==
    LET self == collector[c]
    IN  /\ c \in DOMAIN collector
        /\ Len(collector) = 1
        /\ self.pc = "done"
        /\ Len(self.yielded) = 2
        /\ Set(c, [self EXCEPT !._scrape_metrics = <<>>, !.err = FALSE, !.pc = "ping_check"])
        /\ UNCHANGED clients
\* collect(), lines 344-354, called a second time on the same object
CollectAgain(c) ==
    LET self == collector[c]
    IN  /\ c \in DOMAIN collector
        /\ Len(collector) = 1
        /\ self.pc = "done"
        /\ Len(self.yielded) = 2
        /\ Set(c, [self EXCEPT !._metrics = <<>>, !._scrape_metrics = <<>>,
                               !.err = FALSE, !.pc = "ping_check"])
        /\ UNCHANGED clients
\* a second collector for the same target, once the first cycle has ended
ConstructSecond(c) ==
    /\ c = 2
    /\ Len(collector) = 1
    /\ collector[1].pc = "done"
    /\ Len(collector[1].yielded) = 2
    /\ collector' = Append(collector, New(collector[1]._code))
    /\ UNCHANGED <<clients, input, output>>
\* the remote is unchanged: a call made in this step has the outcome the
\* same call had whenever it was made before
SameFixture ==
    \A c \in DOMAIN collector' :
        LET old == IF c \in DOMAIN collector THEN Len(collector[c].trace) ELSE 0
        IN  \A k \in (old + 1)..Len(collector'[c].trace) :
               LET call == collector'[c].trace[k]
               IN  call.op \in {"connect_ex", "redfish_client", "login", "get"} =>
                      \A d \in DOMAIN collector : \A j \in 1..Len(collector[d].trace) :
                         (collector[d].trace[j].op = call.op /\ collector[d].trace[j].path = call.path)
                            => collector[d].trace[j].res = call.res
NextTwice ==
    \E c \in CollectorIds :
        \/ Collect(c)
        \/ CollectAgain(c)
        \/ ConstructSecond(c)
        \/ ping_check(c) /\ SameFixture
        \/ redfish_login(c) /\ SameFixture
        \/ FetchSystem(c) /\ SameFixture
        \/ _collect_processors(c) /\ SameFixture
        \/ _collect_memory(c) /\ SameFixture
        \/ FetchGpu(c) /\ SameFixture
        \/ _collect_gpu_processors(c) /\ SameFixture
        \/ _collect_gpu_memory(c) /\ SameFixture
        \/ Finally(c)
        \/ YieldScrape(c)
SpecTwice == Init /\ [][NextTwice]_vars

(***************************************************************************)
(* collect() run a second time on the same collector: the remote keeps its *)
(* documents, while the probe and the login of the second cycle are free   *)
(* to end otherwise than those of the first.                               *)
(***************************************************************************)
\* the documents of the remote are unchanged: a fetch made in this step has
\* the outcome the fetch of the same path had before
SameDocuments ==
    \A c \in DOMAIN collector' :
        LET old == IF c \in DOMAIN collector THEN Len(collector[c].trace) ELSE 0
        IN  \A k \in (old + 1)..Len(collector'[c].trace) :
               LET call == collector'[c].trace[k]
               IN  call.op = "get" =>
                      \A d \in DOMAIN collector : \A j \in 1..Len(collector[d].trace) :
                         (collector[d].trace[j].op = "get" /\ collector[d].trace[j].path = call.path)
                            => collector[d].trace[j].res = call.res
AgainBudget == \A d \in DOMAIN collector : Faults(collector[d]) <= AgainFaults
NextAgain ==
    \E c \in CollectorIds :
        \/ Collect(c)
        \/ CollectAgain(c)
        \/ ping_check(c)
        \/ redfish_login(c)
        \/ FetchSystem(c) /\ SameDocuments /\ AgainBudget'
        \/ _collect_processors(c) /\ SameDocuments /\ AgainBudget'
        \/ _collect_memory(c) /\ SameDocuments /\ AgainBudget'
        \/ FetchGpu(c) /\ SameDocuments /\ AgainBudget'
        \/ _collect_gpu_processors(c) /\ SameDocuments /\ AgainBudget'
        \/ _collect_gpu_memory(c) /\ SameDocuments /\ AgainBudget'
        \/ Finally(c)
        \/ YieldScrape(c)
SpecAgain == Init /\ [][NextAgain]_vars

(***************************************************************************)
(* Two poll cycles that serve concurrent requests for two targets: their   *)
(* steps interleave in any order.                                          *)
(***************************************************************************)
InitPair ==
    /\ collector \in [{1, 2} -> {New(code) : code \in Codes}]
    /\ clients = 0
    /\ input = PyNone
    /\ output = NotApplied
PairBudget == Faults(collector[1]) + Faults(collector[2]) <= PairFaults
NextPair ==
    \E c \in CollectorIds :
        \/ Collect(c)
        \/ ping_check(c)
        \/ redfish_login(c)
        \/ FetchSystem(c) /\ PairBudget'
        \/ _collect_processors(c) /\ PairBudget'
        \/ _collect_memory(c) /\ PairBudget'
        \/ FetchGpu(c) /\ PairBudget'
        \/ _collect_gpu_processors(c) /\ PairBudget'
        \/ _collect_gpu_memory(c) /\ PairBudget'
        \/ Finally(c)
        \/ YieldScrape(c)
SpecPair == InitPair /\ [][NextPair]_vars

(***************************************************************************)
(* The severity mapper applied to one status.                              *)
(***************************************************************************)
StatusAlphabet == {"o", "k", "n", "O", "K", " "}
RECURSIVE StringsOver(_, _)
\* the strings of length at most n over the alphabet A
StringsOver(A, n) ==
    IF n = 0 THEN {<<>>}
    ELSE LET S == StringsOver(A, n - 1)
         IN  S \cup {Append(s, a) : s \in S, a \in A}
\* str.capitalize() and an alternation of cases
Capitalize(s) == [i \in 1..Len(s) |-> IF i = 1 THEN UpperChar(s[i]) ELSE LowerChar(s[i])]
Alternate(s) == [i \in 1..Len(s) |-> IF i % 2 = 0 THEN UpperChar(s[i]) ELSE LowerChar(s[i])]
CaseVariants(s) == {s, Lower(s), Upper(s), Capitalize(s), Alternate(s)}
StatusKeys == {_status_map[i][1] : i \in 1..Len(_status_map)}
StatusInputs ==
    {PyNone, PyInt(0), PyInt(5), PyBool(TRUE), PyStr(NoneStr)}
    \cup {PyStr(s) : s \in StringsOver(StatusAlphabet, MaxLen)}
    \cup {PyStr(v) : v \in UNION {CaseVariants(k) : k \in StatusKeys}}

InitMap ==
    /\ collector = <<>>
    /\ clients = 0
    /\ input \in StatusInputs
    /\ output = NotApplied
MapStatus ==
    /\ ~output.done
    /\ output' = [done |-> TRUE, value |-> _map_status(input)]
    /\ UNCHANGED <<collector, clients, input>>
NextMap == MapStatus
SpecMap == InitMap /\ [][NextMap]_vars

(***************************************************************************)
(* The scrape endpoint (redfish_exporter.py: metric_router) serving one    *)
(* request: input is the request and the configuration loaded at start,    *)
(* output the response.                                                    *)
(***************************************************************************)
k_auth == <<"a", "u", "t", "h">>
k_username == <<"u", "s", "e", "r", "n", "a", "m", "e">>
k_password == <<"p", "a", "s", "s", "w", "o", "r", "d">>
\* d[k]: the value, or KeyError / TypeError
Subscript(d, k) ==
    IF d.t = "dict" /\ HasKey(d, k) THEN [raised |-> FALSE, value |-> DictGet(d, k, PyNone)]
    ELSE [raised |-> TRUE, value |-> PyNone]
Auth(username, password) ==
    PyDict(<< <<k_auth, PyDict(<< <<k_username, username>>, <<k_password, password>> >>)>> >>)
Secret == PyStr(<<"s">>)
\* what config.yml may hold for one code
ConfigEntries ==
    {Auth(Secret, Secret), Auth(PyInt(7), Secret),
     Auth(PyStr(<<>>), Secret), Auth(Secret, PyStr(<<>>)), Auth(PyNone, Secret), Auth(Secret, PyInt(0)),
     PyDict(<< <<k_auth, PyDict(<< <<k_username, Secret>> >>)>> >>),
     PyDict(<< <<k_auth, PyDict(<< <<k_password, Secret>> >>)>> >>),
     PyDict(<< <<k_auth, PyNone>> >>),
     PyDict(<<>>),
     PyNone}
Configs ==
    {PyNone}
    \cup {PyDict(<< <<"standard", e>> >>) : e \in ConfigEntries}
    \cup {PyDict(<< <<"standard", Auth(Secret, Secret)>>, <<haein_gpu, e>> >>) :
              e \in ConfigEntries \ {Auth(PyInt(7), Secret)}}
Requests == [config : Configs, code : Codes \cup {"other"}]
NoResponse == [done |-> FALSE, status_code |-> 0, content |-> <<>>]
CredentialsFailed == "Authentication credentials get failed"

InitRouter ==
    /\ collector = <<>>
    /\ clients = 0
    /\ input \in Requests
    /\ output = NoResponse
\* a handler that does not test the credentials it read
metric_router_untested ==
    LET config_data == Subscript(input.config, input.code)
        auth == Subscript(config_data.value, k_auth)
        username == Subscript(auth.value, k_username)
        password == Subscript(auth.value, k_password)
    IN  /\ collector = <<>>
        /\ ~output.done
        /\ IF config_data.raised \/ auth.raised \/ username.raised \/ password.raised
           THEN /\ output' = [done |-> TRUE, status_code |-> 401, content |-> CredentialsFailed]
                /\ UNCHANGED <<collector, clients, input>>
           ELSE /\ collector' = <<New(input.code)>>
                /\ UNCHANGED <<clients, input, output>>
\* metric_router up to the construction of the collector
metric_router ==
    LET config_data == Subscript(input.config, input.code)
        auth == Subscript(config_data.value, k_auth)
        username == Subscript(auth.value, k_username)
        password == Subscript(auth.value, k_password)
    IN  /\ collector = <<>>
        /\ ~output.done
        /\ IF \/ config_data.raised \/ auth.raised \/ username.raised \/ password.raised
              \/ ~Truthy(username.value) \/ ~Truthy(password.value)
           THEN /\ output' = [done |-> TRUE, status_code |-> 401, content |-> CredentialsFailed]
                /\ UNCHANGED <<collector, clients, input>>
           ELSE /\ collector' = <<New(input.code)>>
                /\ UNCHANGED <<clients, input, output>>
\* generate_latest(registry) has run collect() to its end: the response
Respond ==
    /\ collector # <<>>
    /\ collector[1].pc = "done"
    /\ ~output.done
    /\ output' = [done |-> TRUE, status_code |-> 200, content |-> collector[1].yielded]
    /\ UNCHANGED <<collector, clients, input>>
NextRouter ==
    \/ metric_router
    \/ Next
    \/ Respond
SpecRouter == InitRouter /\ [][NextRouter]_vars

(***************************************************************************)
(* The field extractor applied to one document and one key path.           *)
(***************************************************************************)
FieldNames == {<<"a">>, <<"b">>, <<"c">>}
Scalars ==
    {PyNone, PyBool(FALSE), PyBool(TRUE), PyInt(0), PyInt(7), PyStr(<<>>),
     PyStr(<<" ", "x", "\t">>), PyStr(<<" ", " ">>), PyStr(NoneStr),
     PyList(<<>>), PyList(<<PyInt(1)>>)}
RECURSIVE Documents(_)
\* the documents nested at most n deep
Documents(n) ==
    IF n = 0 THEN Scalars
    ELSE LET D == Documents(n - 1)
         IN  D \cup {PyDict(<<>>)}
               \cup {PyDict(<< <<<<"a">>, d>> >>) : d \in D}
               \cup {PyDict(<< <<<<"b">>, PyInt(7)>>, <<<<"a">>, d>> >>) : d \in D}
GetInputs == [data : Documents(MaxKeys), keys : StringsOver(FieldNames, MaxKeys)]

InitGet ==
    /\ collector = <<>>
    /\ clients = 0
    /\ input \in GetInputs
    /\ output = NotApplied
SafeGet ==
    /\ ~output.done
    /\ output' = [done |-> TRUE, value |-> _safe_get(input.data, input.keys)]
    /\ UNCHANGED <<collector, clients, input>>
NextGet == SafeGet
SpecGet == InitGet /\ [][NextGet]_vars

(***************************************************************************)
(* Properties of the poll cycle.                                           *)
(***************************************************************************)
Events(self, op) == {k \in 1..Len(self.trace) : self.trace[k].op = op}
Created(self) == {k \in Events(self, "redfish_client") : self.trace[k].res = "ok"}
MainYields(self) == {k \in Events(self, "yield") : self.trace[k].res = _module}
Outbound(self) == {k \in 1..Len(self.trace) : self.trace[k].op # "yield"}
PingOk == Sample(1, [labeltype |-> LabelType.ping_check, ping_check |-> <<"O", "K">>])
PingFail == Sample(0, [labeltype |-> LabelType.ping_check, ping_check |-> <<"F", "a", "i", "l">>])
LoginOk == Sample(1, [labeltype |-> LabelType.redfish_login, redfish_login |-> <<"O", "K">>])
LoginFailed == Sample(0, [labeltype |-> LabelType.redfish_login, redfish_login |-> <<"F", "a", "i", "l", "e", "d">>])
MainFamilies(self) == {k \in 1..Len(self.yielded) : self.yielded[k].name = _module}

\* C1: in a cycle logout is called once, on the client the cycle created, if
\* a client was created, and is not called otherwise; the call is made before
\* the main family is yielded, on every path to that yield.
C1_LogoutOncePerSession ==
    \A c \in DOMAIN collector :
        LET self == collector[c]
            logouts == Events(self, "logout")
        IN  /\ Cardinality(logouts) <= Cardinality(Created(self))
            /\ \A k \in logouts :
                  \E j \in Created(self) : j < k /\ self.trace[j].h = self.trace[k].h
            /\ \A y \in MainYields(self) :
                  Cardinality({k \in logouts : k < y}) = Cardinality(Created(self))
            /\ self.pc = "done" => MainYields(self) # {}
C1_Witness ==
    \E c \in DOMAIN collector :
        LET self == collector[c]
        IN  /\ self.pc = "done"
            /\ \E k \in Events(self, "login") : self.trace[k].res = "raise"
            /\ Cardinality(Events(self, "logout")) = 1

CountType(samples, labeltype) ==
    Cardinality({k \in 1..Len(samples) : samples[k].labels["labeltype"] = labeltype})
GetsOf(self, path) == {k \in Events(self, "get") : self.trace[k].path = PyStr(path)}

\* C2: a cycle of a code other than haein_gpu whose probe and login succeed
\* fetches /Systems/1 and, every fetch succeeding, ends with one system_health
\* and one system_power sample and one processor and one memory sample for
\* each member of the two collections.
C2_StandardTraversal ==
    \A c \in DOMAIN collector :
        LET self == collector[c]
        IN  (/\ self.pc = "done"
             /\ self._code # haein_gpu
             /\ \E k \in Events(self, "login") : self.trace[k].res = "ok"
             /\ \A k \in Events(self, "get") : self.trace[k].res = "ok")
            => /\ GetsOf(self, SystemPath) # {}
               /\ CountType(self._metrics, LabelType.system_health) = 1
               /\ CountType(self._metrics, LabelType.system_power) = 1
               /\ CountType(self._metrics, LabelType.processor) = MaxMembers
               /\ CountType(self._metrics, LabelType.memory) = MaxMembers

ProbeFailed(self) ==
    \E k \in Events(self, "connect_ex") : self.trace[k].res \in {"refused", "raise"}
\* C3: once the probe has failed (connect_ex non-zero or raising) the main
\* family holds the one sample ping_check = 0 and stays so, no client is
\* built, no login, fetch or logout is made, and the family is yielded so.
C3_ProbeFailureAborts ==
    \A c \in DOMAIN collector :
        LET self == collector[c]
        IN  ProbeFailed(self) =>
               /\ self._metrics = <<PingFail>>
               /\ Outbound(self) = Events(self, "connect_ex")
               /\ self.pc \in {"finally", "duration", "done"}
               /\ \A k \in MainFamilies(self) : self.yielded[k].samples = <<PingFail>>
               /\ self.pc = "done" => MainFamilies(self) # {}
C3_Witness ==
    \E c \in DOMAIN collector :
        LET self == collector[c]
        IN  /\ self.pc = "done"
            /\ \E k \in Events(self, "connect_ex") : self.trace[k].res = "raise"
            /\ self.yielded[1].samples = <<PingFail>>

LoginRaised(self) ==
    \E k \in Events(self, "redfish_client") \cup Events(self, "login") :
        self.trace[k].res = "raise"
\* C4: once the login has failed after a successful probe (the client
\* constructor or login() raising) the main family holds ping_check = 1 then
\* redfish_login = 0 and stays so, no fetch is made, and it is yielded so.
C4_LoginFailureAborts ==
    \A c \in DOMAIN collector :
        LET self == collector[c]
        IN  LoginRaised(self) =>
               /\ self._metrics = <<PingOk, LoginFailed>>
               /\ Events(self, "get") = {}
               /\ self.pc \in {"finally", "duration", "done"}
               /\ \A k \in MainFamilies(self) : self.yielded[k].samples = <<PingOk, LoginFailed>>
               /\ self.pc = "done" => MainFamilies(self) # {}
C4_Witness ==
    \E c \in DOMAIN collector :
        LET self == collector[c]
        IN  /\ self.pc = "done"
            /\ \E k \in Events(self, "redfish_client") : self.trace[k].res = "raise"
            /\ self.yielded[1].samples = <<PingOk, LoginFailed>>

\* C5: an exception raised during the traversal is caught: the step that
\* raises adds no sample and no step after it adds or removes one or fetches;
\* the cycle goes on to logout and yields the main family with exactly the
\* samples held when the exception was raised, the ping_check and
\* redfish_login samples first, and then the duration family.
C5_AfterException(self) ==
    /\ self.pc \in {"finally", "duration", "done"}
    /\ Len(self._metrics) >= 2
    /\ SubSeq(self._metrics, 1, 2) = <<PingOk, LoginOk>>
    /\ \A y \in MainYields(self) : \E k \in Events(self, "logout") : k < y
    /\ self.pc # "finally" => /\ Len(self.yielded) >= 1
                              /\ self.yielded[1] = Family(_module, self._metrics)
    /\ self.pc = "done" => /\ Len(self.yielded) = 2
                           /\ self.yielded[2].name = "redfish_scrape_duration_seconds"
                           /\ Len(self.yielded[2].samples) = 1
C5_StepAfterException(c) ==
    /\ collector'[c].err => collector'[c]._metrics = collector[c]._metrics
    /\ collector[c].err => /\ collector'[c].err
                           /\ Events(collector'[c], "get") = Events(collector[c], "get")
C5_ExceptionContained ==
    /\ [](\A c \in DOMAIN collector : collector[c].err => C5_AfterException(collector[c]))
    /\ [][\A c \in DOMAIN collector : C5_StepAfterException(c)]_vars
C5_Witness ==
    \E c \in DOMAIN collector :
        LET self == collector[c]
        IN  /\ self.pc = "done"
            /\ self.err
            /\ Len(self._metrics) > 4
            /\ self.yielded[1].samples = self._metrics

(***************************************************************************)
(* Properties of the walk over the inventory.                              *)
(***************************************************************************)
Methods == {"_collect_processors", "_collect_memory", "_collect_gpu_processors", "_collect_gpu_memory"}
\* the collection a collecting method walks, and the labels that tell its samples
CollectionOf(method) ==
    CASE method = "_collect_processors" -> ProcessorsLink(SystemPath)
      [] method = "_collect_memory" -> MemoryLink(SystemPath)
      [] method = "_collect_gpu_processors" -> ProcessorsLink(GpuPath)
      [] method = "_collect_gpu_memory" -> MemoryLink(GpuPath)
MembersOf(method) == {MemberPath(CollectionOf(method), i) : i \in 1..MaxMembers}
IsSampleOf(method, s) ==
    LET names == DOMAIN s.labels
        labeltype == s.labels["labeltype"]
    IN  CASE method = "_collect_processors" -> labeltype = LabelType.processor /\ "Socket" \in names
          [] method = "_collect_memory" -> labeltype = LabelType.memory
          [] method = "_collect_gpu_processors" ->
                \/ labeltype = LabelType.gpu_processor
                \/ labeltype = LabelType.processor /\ "Socket" \notin names
          [] method = "_collect_gpu_memory" -> labeltype = LabelType.gpu_memory
SamplesOf(self, method) == SelectSeq(self._metrics, LAMBDA s : IsSampleOf(method, s))
\* the fetches of the members of a method's collection that were answered
\* with status 200, in the order they were made
IsMemberGet(method, call) ==
    /\ call.op = "get"
    /\ call.path.t = "str"
    /\ call.path.v \in MembersOf(method)
Answered(self, method) ==
    SelectSeq(self.trace, LAMBDA call : IsMemberGet(method, call) /\ call.res # "failed")
ReducedFields == {"labeltype", "Status_Health", "FirmwareVersion", "Id", "Manufacturer", "Name"}
FullFields ==
    {"labeltype", "Status_Health", "BaseSpeedMHz", "FirmwareVersion", "Id", "Manufacturer",
     "MaxSpeedMHz", "Model", "Name", "OperatingSpeedMHz", "PartNumber", "ProcessorType",
     "SerialNumber", "TotalThreads"}

\* C6: in a haein_gpu cycle /Systems/1 is fetched before /Systems/HGX_Baseboard_0,
\* and every baseboard processor member answered with status 200 has one
\* sample: of labeltype gpu_processor with the reduced label set if and only
\* if its Id is FPGA_0, else of labeltype processor with the full label set.
C6_GpuProcessorSamples ==
    \A c \in DOMAIN collector :
        LET self == collector[c]
            samples == SamplesOf(self, "_collect_gpu_processors")
        IN  self._code = haein_gpu =>
               /\ \A g \in GetsOf(self, GpuPath) : \E k \in GetsOf(self, SystemPath) : k < g
               /\ Len(samples) = Len(Answered(self, "_collect_gpu_processors"))
               /\ \A k \in 1..Len(samples) :
                     IF samples[k].labels["Id"] = FPGA_0
                     THEN /\ samples[k].labels["labeltype"] = LabelType.gpu_processor
                          /\ DOMAIN samples[k].labels = ReducedFields
                     ELSE /\ samples[k].labels["labeltype"] = LabelType.processor
                          /\ DOMAIN samples[k].labels = FullFields

\* the sample a member document answered with status 200 is due
SampleDue(method, call) ==
    LET labels == MemberLabels(method, MemberDoc(call.path.v, call.res))
    IN  Sample(_map_status(PyStr(labels["Status_Health"])), labels)
Walked(self, method) ==
    \E k \in GetsOf(self, CollectionOf(method)) : self.trace[k].res = "ok"
After(method) ==
    CASE method = "_collect_processors" -> {"_collect_memory", "gpu", "_collect_gpu_processors", "_collect_gpu_memory", "finally", "duration", "done"}
      [] method = "_collect_memory" -> {"gpu", "_collect_gpu_processors", "_collect_gpu_memory", "finally", "duration", "done"}
      [] method = "_collect_gpu_processors" -> {"_collect_gpu_memory", "finally", "duration", "done"}
      [] method = "_collect_gpu_memory" -> {"finally", "duration", "done"}
\* C7: in each collection the samples are, in order, those of the members
\* answered with status 200, one each, whichever members failed; and a failed
\* member does not stop the loop: a collection walked without an exception has
\* had every member fetched.
C7_MemberFailureSkipsMember ==
    \A c \in DOMAIN collector : \A method \in Methods :
        LET self == collector[c]
            answered == Answered(self, method)
        IN  /\ SamplesOf(self, method) = [k \in 1..Len(answered) |-> SampleDue(method, answered[k])]
            /\ (Walked(self, method) /\ ~self.err /\ self.pc \in After(method))
                  => \A p \in MembersOf(method) : GetsOf(self, p) # {}

NextOf(method) ==
    CASE method = "_collect_processors" -> "_collect_memory"
      [] method = "_collect_memory" -> "gpu"
      [] method = "_collect_gpu_processors" -> "_collect_gpu_memory"
      [] method = "_collect_gpu_memory" -> "finally"
LinkOf(method) == IF method \in {"_collect_processors", "_collect_gpu_processors"}
                  THEN Key.Processors ELSE Key.Memory
\* the step just taken made a fetch of `path` that failed
FetchFailed(self, new, path) ==
    /\ Len(new.trace) = Len(self.trace) + 1
    /\ new.trace[Len(new.trace)] = Call("get", self._redfish_object, PyStr(path), "failed")
\* the subtree is passed over: nothing is added, nothing is raised, and the
\* traversal stands at the next subtree
PassedOver(self, new, next) ==
    /\ new._metrics = self._metrics
    /\ ~new.err
    /\ new.pc = next
C8_SubtreeStep(c) ==
    LET self == collector[c]
        new == collector'[c]
    IN  /\ (self.pc = "system" /\ FetchFailed(self, new, SystemPath))
              => PassedOver(self, new, "gpu")
        /\ \A method \in Methods :
              (self.pc = method /\ self.i = 0) =>
                 /\ ~HasKey(self.data, LinkOf(method))
                       => /\ PassedOver(self, new, NextOf(method))
                          /\ new.trace = self.trace
                 /\ FetchFailed(self, new, CollectionOf(method))
                       => PassedOver(self, new, NextOf(method))
\* the subtree that follows is then fetched
C8_NextSubtreeFetched(self) ==
    /\ (\E k \in GetsOf(self, SystemPath) : self.trace[k].res = "failed")
          => /\ \A method \in {"_collect_processors", "_collect_memory"} : SamplesOf(self, method) = <<>>
             /\ CountType(self._metrics, LabelType.system_health) = 0
             /\ CountType(self._metrics, LabelType.system_power) = 0
             /\ self.pc \in {"gpu", "_collect_gpu_processors", "_collect_gpu_memory", "finally", "duration", "done"}
             /\ (self.pc # "gpu" /\ ~self.err) => GetsOf(self, GpuPath) # {}
    /\ \A method \in Methods :
          (\E k \in GetsOf(self, CollectionOf(method)) : self.trace[k].res = "failed")
             => /\ SamplesOf(self, method) = <<>>
                /\ self.pc \in After(method)
                /\ (method = "_collect_processors" /\ self.pc # "_collect_memory" /\ ~self.err
                      /\ \E k \in GetsOf(self, SystemPath) : self.trace[k].res = "ok")
                      => GetsOf(self, MemoryLink(SystemPath)) # {}
                /\ (method = "_collect_memory" /\ self.pc # "gpu" /\ ~self.err)
                      => GetsOf(self, GpuPath) # {}
    /\ (\E k \in GetsOf(self, SystemPath) : self.trace[k].res = "no_processors")
          => /\ SamplesOf(self, "_collect_processors") = <<>>
             /\ GetsOf(self, ProcessorsLink(SystemPath)) = {}
             /\ (self.pc \notin {"system", "_collect_processors", "_collect_memory"} /\ ~self.err)
                   => GetsOf(self, MemoryLink(SystemPath)) # {}
    /\ (\E k \in GetsOf(self, SystemPath) : self.trace[k].res = "no_memory")
          => /\ SamplesOf(self, "_collect_memory") = <<>>
             /\ GetsOf(self, MemoryLink(SystemPath)) = {}
             /\ (self.pc \in After("_collect_memory") \ {"gpu"} /\ ~self.err) => GetsOf(self, GpuPath) # {}
\* C8: a system document without a Processors or Memory link, a failed fetch
\* of a collection and a failed fetch of /Systems/1 each leave the main family
\* as it was and raise nothing, the subtree contributes no sample, and the
\* traversal goes on to the next subtree, which is then fetched unless an
\* exception has ended the traversal.
C8_SubtreeFailureIsLocal ==
    /\ [](\A c \in DOMAIN collector : C8_NextSubtreeFetched(collector[c]))
    /\ [][\A c \in DOMAIN collector : C8_SubtreeStep(c)]_vars
C8_Witness ==
    \E c \in DOMAIN collector :
        LET self == collector[c]
        IN  /\ self.pc = "done"
            /\ ~self.err
            /\ \E k \in GetsOf(self, SystemPath) : self.trace[k].res = "failed"
            /\ \E k \in GetsOf(self, ProcessorsLink(GpuPath)) : self.trace[k].res = "failed"
            /\ SamplesOf(self, "_collect_gpu_memory") # <<>>

(***************************************************************************)
(* Properties of the severity mapper.                                      *)
(***************************************************************************)
\* the severity table as documented
SeverityTable ==
    << <<k_off, 0>>, <<k_ok, 0>>, <<k_operable, 0>>, <<k_enabled, 0>>, <<k_good, 0>>,
       <<k_goodinuse, 0>>, <<k_on, 1>>, <<k_critical, 1>>, <<k_degraded, 1>>, <<k_error, 1>>,
       <<k_warning, 2>>, <<k_unknown, 5>>, <<k_none, 5>>, <<k_null, 5>>, <<k_absent, 6>>,
       <<k_presentunused, 7>>, <<k_get_failed, 99>>, <<k_emptydata, 100>> >>
SeverityKeys == {SeverityTable[i][1] : i \in 1..Len(SeverityTable)}
SeverityCode(key) == DictGet(PyDict(SeverityTable), key, -1)
Mapped == output.done

\* C9: a status that is a key of the severity table in lower case, in upper
\* case or in any other mix of cases maps to the code the table gives the key.
C9_CaseInsensitiveTable ==
    (Mapped /\ input.t = "str" /\ Lower(input.v) \in SeverityKeys)
       => output.value = SeverityCode(Lower(input.v))
C9_Witness ==
    /\ Mapped
    /\ input = PyStr(Upper(k_warning))
    /\ output.value = 2

IsAbsentOrEmpty(x) == x = PyNone \/ x = PyStr(<<>>)
IsUnrecognized(x) == x.t = "str" /\ x.v # <<>> /\ Lower(x.v) \notin SeverityKeys
\* C10 as claimed: an absent or empty status maps to 5, a string that is not
\* a key of the table maps to 500, and neither 5 nor 500 is the code of an
\* entry of the table.
C10_DefaultDeny ==
    Mapped =>
       /\ IsAbsentOrEmpty(input) => output.value = 5
       /\ IsUnrecognized(input) => output.value = 500
       /\ (input.t = "str" /\ input.v \in SeverityKeys) => output.value \notin {5, 500}
\* C10 amended: an absent or empty status maps to 5, a string whose lower-case
\* form is not a key of the table maps to 500, and 500 is the code of no
\* entry of the table; 5 is the code of the entries unknown, none and null
\* and of no other entry.
C10_DefaultDenyAmended ==
    Mapped =>
       /\ IsAbsentOrEmpty(input) => output.value = 5
       /\ IsUnrecognized(input) => output.value = 500
       /\ (input.t = "str" /\ Lower(input.v) \in SeverityKeys) =>
             /\ output.value # 500
             /\ output.value = 5 <=> Lower(input.v) \in {k_unknown, k_none, k_null}
C10_Witness ==
    /\ Mapped
    /\ input = PyStr(<<"o", "n", "k">>)
    /\ output.value = 500

(***************************************************************************)
(* Properties of the field extractor.                                      *)
(***************************************************************************)
RECURSIVE Descend(_, _)
\* the value a key path leads to in a document, if it leads to one
Descend(doc, keys) ==
    IF keys = <<>> THEN [found |-> TRUE, value |-> doc]
    ELSE IF doc.t # "dict" THEN [found |-> FALSE, value |-> PyNone]
    ELSE IF \A i \in 1..Len(doc.v) : doc.v[i][1] # Head(keys) THEN [found |-> FALSE, value |-> PyNone]
    ELSE Descend(doc.v[CHOOSE i \in 1..Len(doc.v) : doc.v[i][1] = Head(keys)][2], Tail(keys))
\* C11: for every document and key path _safe_get returns a string: the
\* sentinel 'None' when the path leaves the mappings or ends at no value or at
\* a falsy one, else the text of the terminal value without the whitespace
\* around it.
C11_SafeGetTotal ==
    output.done =>
       LET end == Descend(input.data, input.keys)
       IN  output.value = IF ~end.found \/ ~Truthy(end.value) THEN NoneStr
                          ELSE Strip(str(end.value))
C11_Witness ==
    /\ output.done
    /\ input.keys = << <<"a">>, <<"a">> >>
    /\ Descend(input.data, input.keys) = [found |-> TRUE, value |-> PyStr(<<" ", "x", "\t">>)]
    /\ output.value = <<"x">>

(***************************************************************************)
(* Properties of the emission.                                             *)
(***************************************************************************)
ScrapeName == "redfish_scrape_duration_seconds"
C12_Emitted(self) ==
    /\ Len(self.yielded) <= 2
    /\ Len(self.yielded) >= 1 => self.yielded[1].name = _module
    /\ Len(self.yielded) = 2 =>
          /\ self.yielded[2].name = ScrapeName
          /\ Len(self.yielded[2].samples) = 1
          /\ self.yielded[2].samples[1].value = Round2(self.time - self._start_time)
          /\ self.yielded[2].samples[1].value >= 0
          /\ self.time >= self._start_time
    /\ self.pc = "done" => Len(self.yielded) = 2
LogoutRaised(self) == \E k \in Events(self, "logout") : self.trace[k].res = "raise"
\* the step in which logout is called, whatever its outcome, yields the main
\* family as it stood and changes nothing else a scrape observes
C13_LogoutStep(c) ==
    LET self == collector[c]
        new == collector'[c]
    IN  Events(new, "logout") # Events(self, "logout") =>
           /\ new._metrics = self._metrics
           /\ new._scrape_metrics = self._scrape_metrics
           /\ new.yielded = Append(self.yielded, Family(_module, self._metrics))
           /\ new.err = self.err
           /\ new.pc = "duration"
\* C13: a logout that raises leaves the families and samples of the cycle as
\* a logout that succeeds leaves them, and the cycle goes on to yield both
\* families.
C13_LogoutFailureSwallowed ==
    [][\A c \in DOMAIN collector :
          /\ C13_LogoutStep(c)
          /\ (LogoutRaised(collector[c]) /\ collector'[c].pc = "done")
                => /\ Len(collector'[c].yielded) = 2
                   /\ collector'[c].yielded[1] = collector[c].yielded[1]]_vars
C13_Witness ==
    \E c \in DOMAIN collector :
        LET self == collector[c]
        IN  /\ self.pc = "done"
            /\ LogoutRaised(self)
            /\ Len(self.yielded) = 2
            /\ Len(self.yielded[1].samples) > 2

(***************************************************************************)
(* Properties of the scrape endpoint.                                      *)
(***************************************************************************)
\* the configuration gives the request's code a username and a password
Resolved ==
    /\ input.config.t = "dict"
    /\ \E i \in 1..Len(input.config.v) :
          /\ input.config.v[i][1] = input.code
          /\ LET entry == input.config.v[i][2]
             IN  /\ entry.t = "dict"
                 /\ \E j \in 1..Len(entry.v) :
                       /\ entry.v[j][1] = k_auth
                       /\ entry.v[j][2].t = "dict"
                       /\ \A k \in {k_username, k_password} :
                             \E n \in 1..Len(entry.v[j][2].v) :
                                /\ entry.v[j][2].v[n][1] = k
                                /\ Truthy(entry.v[j][2].v[n][2])
\* C14: when the credentials of the request's code are not resolved the
\* response is 401 with the fixed body and no collector is ever built, so no
\* call is made to the target; otherwise the response is that of one poll
\* cycle, of a collector of the request's code, and carries its families.
C14_CredentialsGate ==
    /\ ~Resolved =>
          /\ collector = <<>>
          /\ clients = 0
          /\ output.done => output.status_code = 401 /\ output.content = CredentialsFailed
    /\ Resolved =>
          /\ Len(collector) <= 1
          /\ \A c \in DOMAIN collector : collector[c]._code = input.code
          /\ output.done =>
                /\ output.status_code = 200
                /\ Len(collector) = 1
                /\ collector[1].pc = "done"
                /\ Cardinality(Events(collector[1], "connect_ex")) = 1
                /\ Cardinality(MainYields(collector[1])) = 1
                /\ output.content = collector[1].yielded
C14_Witness ==
    /\ output.done
    /\ input.code = haein_gpu
    /\ Subscript(input.config, haein_gpu).value = Auth(Secret, PyStr(<<>>))
    /\ output.status_code = 401
    /\ collector = <<>>

(***************************************************************************)
(* Properties of repeated cycles.                                          *)
(***************************************************************************)
\* C15: against an unchanged remote the main family of the second cycle
\* holds the same samples, values and labels, in the same order as that of
\* the first, whether the second cycle runs on the same collector or on a
\* new one.
C15_SameSamplesTwice ==
    /\ \A c \in DOMAIN collector :
          Len(collector[c].yielded) >= 3
             => collector[c].yielded[3].samples = collector[c].yielded[1].samples
    /\ (Len(collector) = 2 /\ Len(collector[2].yielded) >= 1)
          => collector[2].yielded[1].samples = collector[1].yielded[1].samples
C15_Witness ==
    /\ Len(collector) = 1
    /\ Len(collector[1].yielded) = 4
    /\ Len(collector[1].yielded[3].samples) > 4
    /\ Faults(collector[1]) = MaxFaults
    /\ collector[1].yielded[4].samples # collector[1].yielded[2].samples

(***************************************************************************)
(* Properties of concurrent cycles.                                        *)
(***************************************************************************)
RECURSIVE SamplesAlone(_, _, _)
\* the main family a cycle builds from the outcomes of its own calls, call by
\* call from position k of its trace
SamplesAlone(trace, k, metrics) ==
    IF k > Len(trace) THEN metrics
    ELSE LET call == trace[k]
             doc == IF call.path.v \in SystemPaths THEN SystemDoc(call.path.v, call.res)
                    ELSE MemberDoc(call.path.v, call.res)
             method == CHOOSE m \in Methods : call.path.v \in MembersOf(m)
             added ==
                CASE call.op = "connect_ex" ->
                        <<IF call.res = "connected" THEN PingOk ELSE PingFail>>
                  [] call.op = "redfish_client" /\ call.res = "raise" -> <<LoginFailed>>
                  [] call.op = "login" -> <<IF call.res = "ok" THEN LoginOk ELSE LoginFailed>>
                  [] call.op = "get" /\ call.res # "failed" /\ call.path.t = "str"
                     /\ call.path.v \in SystemPaths \cup MemberPaths /\ Truthy(doc) ->
                        IF call.path.v = SystemPath THEN _collect_system_info(doc, <<>>)
                        ELSE IF call.path.v = GpuPath THEN _collect_gpu_system_info(doc, <<>>)
                        ELSE <<SampleDue(method, call)>>
                  [] OTHER -> <<>>
         IN  SamplesAlone(trace, k + 1, metrics \o added)
Handles(self) == {self.trace[k].h : k \in Created(self)}
C16_OwnClient ==
    /\ \A c \in DOMAIN collector :
          LET self == collector[c]
          IN  /\ \A k \in Events(self, "login") \cup Events(self, "get") \cup Events(self, "logout") :
                    self.trace[k].h \in Handles(self)
              /\ \A k \in MainFamilies(self) : self.yielded[k].samples = self._metrics
    /\ \A c, d \in DOMAIN collector : c # d => Handles(collector[c]) \cap Handles(collector[d]) = {}
C16_Step(c) ==
    LET self == collector[c]
        new == collector'[c]
    IN  /\ new._metrics = SamplesAlone(new.trace, Len(self.trace) + 1, self._metrics)
        /\ new # self => \A d \in DOMAIN collector \ {c} : collector'[d] = collector[d]
\* C16: under every interleaving of two cycles a step of one leaves the other
\* as it was and adds to its own main family the samples that the outcomes of
\* the calls it made in that step give, so that each family is the one the
\* cycle builds alone; every login, fetch and logout of a cycle is made on
\* the client that cycle built, and no client belongs to both.
C16_ConcurrentCyclesIsolated ==
    /\ []C16_OwnClient
    /\ [][\A c \in DOMAIN collector : C16_Step(c)]_vars
C16_Witness ==
    /\ Len(collector) = 2
    /\ collector[1].pc = "done"
    /\ collector[2].pc = "done"
    /\ collector[1]._redfish_object = 2
    /\ collector[2]._redfish_object = 1
    /\ LogoutRaised(collector[2])
    /\ Len(collector[1]._metrics) > 4
    /\ collector[2]._metrics = <<PingOk, LoginOk>>

(***************************************************************************)
(* Properties of the order of a cycle's steps.                             *)
(***************************************************************************)
Before(self, ops, k) == {j \in 1..(k - 1) : self.trace[j].op \in ops}
\* C17: the probe comes first; a client is built and login called only after
\* a probe that connected; every fetch is made after a login that succeeded
\* and before the logout; after the logout nothing is called, and the
\* families are yielded after it.
C17_StepOrder ==
    \A c \in DOMAIN collector :
        LET self == collector[c]
        IN  /\ self.trace # <<>> => self.trace[1].op = "connect_ex"
            /\ Cardinality(Events(self, "connect_ex")) <= 1
            /\ \A k \in Events(self, "redfish_client") \cup Events(self, "login") :
                  /\ \E j \in Before(self, {"connect_ex"}, k) : self.trace[j].res = "connected"
                  /\ Before(self, {"get", "logout", "yield"}, k) = {}
            /\ \A k \in Events(self, "get") :
                  /\ \E j \in Before(self, {"login"}, k) : self.trace[j].res = "ok"
                  /\ Before(self, {"logout", "yield"}, k) = {}
            /\ \A k \in Events(self, "logout") :
                  /\ Before(self, {"logout", "yield"}, k) = {}
                  /\ \A j \in (k + 1)..Len(self.trace) : self.trace[j].op = "yield"
C17_Witness ==
    \E c \in DOMAIN collector :
        LET self == collector[c]
        IN  /\ self.pc = "done"
            /\ Cardinality(Events(self, "get")) > 6
            /\ Cardinality(Events(self, "logout")) = 1
            /\ Cardinality(Events(self, "yield")) = 2

(***************************************************************************)
(* Properties of the walk over malformed documents.                        *)
(***************************************************************************)
\* C18: no document answered with status 200 raises an exception out of a
\* collecting method, whatever its Members field or its member entries are,
\* and the subtrees after it are traversed: a cycle of code haein_gpu that
\* logged in has fetched the baseboard when it leaves the try block.
C18_ShapeNeverAborts ==
    \A c \in DOMAIN collector :
        LET self == collector[c]
        IN  /\ ~self.err
            /\ (/\ self._code = haein_gpu
                /\ self.pc \in {"finally", "duration", "done"}
                /\ \E k \in Events(self, "login") : self.trace[k].res = "ok")
                  => GetsOf(self, GpuPath) # {}

\* the fields of a member document answered as `alt`
Present(alt) ==
    CASE alt = "empty" -> {}
      [] alt = "bare" -> {"Name"}
      [] OTHER -> {"Id", "Status_Health"}
\* C19: every member answered with status 200 has exactly one sample,
\* whatever fields its document has, a document with no field at all
\* included; a field the document lacks is 'None' in the sample, and a sample
\* whose Status_Health is 'None' has the value 5.
C19_OneSamplePerAnsweredMember ==
    \A c \in DOMAIN collector : \A method \in Methods :
        LET self == collector[c]
            answered == Answered(self, method)
            samples == SamplesOf(self, method)
        IN  /\ Len(samples) = Len(answered)
            /\ \A k \in 1..Len(answered) :
                  answered[k].res \in {"empty", "bare"} =>
                     /\ \A f \in DOMAIN samples[k].labels \ ({"labeltype"} \cup Present(answered[k].res)) :
                           samples[k].labels[f] = NoneStr
                     /\ samples[k].value = 5

(***************************************************************************)
(* The value of a sample.                                                  *)
(***************************************************************************)
SeverityCodes == {0, 1, 2, 5, 6, 7, 99, 100, 500}
\* the label an inventory sample's value is mapped from
StatusLabel(s) ==
    IF s.labels["labeltype"] \in {LabelType.system_power, LabelType.gpu_system_power}
    THEN "PowerState" ELSE "Status_Health"
IsStepSample(s) == s.labels["labeltype"] \in {LabelType.ping_check, LabelType.redfish_login}
\* C20: in every state of a cycle each inventory sample of the main family
\* has the value _map_status gives for its own Status_Health label (its
\* PowerState label for system_power and gpu_system_power samples), which is
\* one of 0, 1, 2, 5, 6, 7, 99, 100, 500; the ping_check and redfish_login
\* samples have the value 0 or 1.
C20_ValueIsMappedStatus ==
    \A c \in DOMAIN collector : \A k \in 1..Len(collector[c]._metrics) :
        LET s == collector[c]._metrics[k]
        IN  IF IsStepSample(s)
            THEN s.value \in {0, 1}
            ELSE /\ s.value = _map_status(PyStr(s.labels[StatusLabel(s)]))
                 /\ s.value \in SeverityCodes
\* a finished haein_gpu cycle whose inventory samples take the values 0, 1,
\* 2, 5 and 500, the power samples of both systems among them
C20_Witness ==
    \E c \in DOMAIN collector :
        LET self == collector[c]
            inventory == {k \in 1..Len(self._metrics) : ~IsStepSample(self._metrics[k])}
        IN  /\ self.pc = "done"
            /\ {0, 1, 2, 5, 500} \subseteq {self._metrics[k].value : k \in inventory}
            /\ \E k \in inventory :
                  /\ self._metrics[k].labels["labeltype"] = LabelType.system_power
                  /\ self._metrics[k].value = 1
            /\ \E k \in inventory :
                  /\ self._metrics[k].labels["labeltype"] = LabelType.gpu_system_power
                  /\ self._metrics[k].value = 0

(***************************************************************************)
(* Properties of a collector that is run again.                            *)
(***************************************************************************)
\* the position in the trace where the first cycle ends: its second yield
FirstCycleEnd(self) ==
    LET yields == Events(self, "yield")
    IN  IF Cardinality(yields) < 2 THEN Len(self.trace)
        ELSE CHOOSE k \in yields : Cardinality({j \in yields : j < k}) = 1
\* C21: no session handle is kept past a cycle: in the second collect() on
\* the same collector every logout is made on a handle created in that
\* second cycle, so a second cycle whose probe fails makes no logout, and
\* its main family is the one a new collector builds from the same answers.
C21_NoHandleRetained ==
    \A c \in DOMAIN collector :
        LET self == collector[c]
            end == FirstCycleEnd(self)
        IN  /\ \A k \in Events(self, "logout") :
                  k > end => \E j \in Created(self) :
                                /\ end < j
                                /\ j < k
                                /\ self.trace[j].h = self.trace[k].h
            /\ Len(self.yielded) >= 3
                  => self.yielded[3].samples = SamplesAlone(self.trace, end + 1, <<>>)
====
